---- MODULE Spec2Model ----
(***************************************************************************)
(* SSO-Simplifier: main (command line, scan, write loop, compile step),    *)
(* utils.ScanForSSOs with its helpers, and utils.WriteSimplifiedSSO.       *)
(*                                                                         *)
(* Text is modelled as a sequence of atoms.  An atom is either a maximal   *)
(* run of identifier characters [a-zA-Z0-9_$] (a word such as "public" or  *)
(* "getX") or a single other character (" ", "\n", "{", "(", ",", "@" ...).*)
(* Every Go string operation of the source (strings.Fields, strings.Index, *)
(* the regular expressions, the byte-wise brace scan) is computed on these *)
(* sequences.  No word of the vocabulary contains another word of the      *)
(* patterns as a substring, so matching by atoms and matching by bytes     *)
(* agree on every text of the model.  Indexes are Go's: 0-based, -1 for    *)
(* "not found".                                                            *)
(***************************************************************************)
EXTENDS Integers, Sequences, FiniteSets, TLC

VARIABLES
    args,           \* the parsed command line of main
    files,          \* the input tree, in the order filepath.Walk visits it
    pc,             \* main's position
    exitCode,       \* the process exit status, -1 while running
    outcome,        \* which way the process ended
    matchingFiles,  \* serverSideObjects: what ScanForSSOs returned
    idx,            \* main's range loop: units already handed to the writer
    outDir,         \* the output directory: file name -> chunks written
    writeCalls,     \* history: each WriteSimplifiedSSO call: unit, error, chunks
    reported,       \* history: ClassName of each "Error writing ..." line
    paramString,    \* the argument of a stand-alone extractParameters call
    parameters,     \* its result
    xpc,            \* its position
    stripInput,     \* `input` of a stand-alone removePrivateClasses call
    stripOrig,      \* history: the argument the call was made with
    spc             \* its position: idle, call, loop (top of the for), returned

vars == <<args, files, pc, exitCode, outcome, matchingFiles, idx, outDir,
          writeCalls, reported, paramString, parameters, xpc,
          stripInput, stripOrig, spc>>

(***************************************************************************)
(* Bounds of the model.                                                    *)
(***************************************************************************)
MaxFiles == 2      \* files in a modelled input tree
MaxItems == 3      \* members in the body of a generated class
MaxDepth == 1      \* extra brace nesting inside a generated body
MaxTokens == 3     \* whitespace-separated tokens in a generated parameter piece
MaxSegments == 6   \* segments of a text handed to removePrivateClasses on its own

(***************************************************************************)
(* Go string helpers on atom sequences.                                    *)
(***************************************************************************)
Whitespace == {" ", "\n", "\t"}

\* the identifier-character runs of the model's texts: [a-zA-Z0-9_$]+
Words == {"public", "private", "class", "extends", "ServerSideObject",
          "package", "final", "void", "boolean", "byte", "char", "short",
          "int", "long", "float", "double", "String", "return", "if",
          "com", "acme", "Foo", "Ann", "Helper", "Plain", "Object",
          "Alpha", "Beta", "Gamma", "Zeta", "alpha", "java", "txt",
          "reset", "getX", "isY", "add", "bad", "make", "secret", "inner",
          "a", "b", "f", "n", "x", "v", "0", "1"}

\* the other characters of the model's texts, one atom each
Punctuation == {"(", ")", "{", "}", ",", ";", ".", "@", "<", ">", "[", "]"}

Atoms == Words \cup Whitespace \cup Punctuation

Min(S) == CHOOSE x \in S : \A y \in S : x <= y

Max(S) == CHOOSE x \in S : \A y \in S : x >= y

\* strings.HasPrefix(s[i:], sub), i 0-based
HasPrefixAt(s, i, sub) ==
    /\ i >= 0
    /\ i + Len(sub) <= Len(s)
    /\ \A k \in 1..Len(sub) : s[i + k] = sub[k]

HasSuffix(s, sub) == Len(sub) <= Len(s) /\ HasPrefixAt(s, Len(s) - Len(sub), sub)

\* strings.Index(s, sub)
Index(s, sub) ==
    LET hits == {i \in 0..(Len(s) - Len(sub)) : HasPrefixAt(s, i, sub)}
    IN  IF hits = {} THEN -1 ELSE Min(hits)

\* strings.LastIndex(s, sub)
LastIndex(s, sub) ==
    LET hits == {i \in 0..(Len(s) - Len(sub)) : HasPrefixAt(s, i, sub)}
    IN  IF hits = {} THEN -1 ELSE Max(hits)

\* s[from:to], Go slice bounds
Slice(s, from, to) == SubSeq(s, from + 1, to)

\* the end (exclusive, 0-based) of the longest run of atoms of class C at i
RunEnd(s, i, C) ==
    IF i >= Len(s) THEN i
    ELSE CHOOSE j \in i..Len(s) :
             /\ j = Len(s) \/ s[j + 1] \notin C
             /\ \A k \in (i + 1)..j : s[k] \in C

\* the k-th smallest element of a set of numbers
Nth(S, k) == CHOOSE x \in S : Cardinality({y \in S : y < x}) = k - 1

\* the fields of s[lo:hi], cut at a whitespace atom near the middle: the
\* fields before the cut, then the fields after it
RECURSIVE FieldsIn(_, _, _)
FieldsIn(s, lo, hi) ==
    IF lo >= hi THEN <<>>
    ELSE LET mid == (lo + hi) \div 2
             right == {k \in mid..(hi - 1) : s[k + 1] \in Whitespace}
             left == {k \in lo..(mid - 1) : s[k + 1] \in Whitespace}
         IN  IF right # {}
             THEN FieldsIn(s, lo, Min(right)) \o FieldsIn(s, Min(right) + 1, hi)
             ELSE IF left # {}
             THEN FieldsIn(s, lo, Max(left)) \o FieldsIn(s, Max(left) + 1, hi)
             ELSE <<Slice(s, lo, hi)>>

\* strings.Fields(s): the maximal runs of non-whitespace, in order
Fields(s) == FieldsIn(s, 0, Len(s))

\* the concatenation of a sequence of strings
RECURSIVE Concat(_, _, _)
Concat(parts, lo, hi) ==
    IF lo > hi THEN <<>>
    ELSE IF lo = hi THEN parts[lo]
    ELSE LET mid == (lo + hi) \div 2
         IN  Concat(parts, lo, mid) \o Concat(parts, mid + 1, hi)

Flatten(parts) == Concat(parts, 1, Len(parts))

\* strings.Join(parts, sep)
Join(parts, sep) ==
    Flatten([k \in 1..(2 * Len(parts) - 1) |->
                IF k % 2 = 1 THEN parts[(k + 1) \div 2] ELSE sep])

\* strings.Split(s, sep) for a one-atom separator: always at least one piece
Split(s, sep) ==
    LET cuts == {i \in 0..(Len(s) - 1) : s[i + 1] = sep}
        starts == {0} \cup {i + 1 : i \in cuts}
    IN  [k \in 1..Cardinality(starts) |->
            LET i == Nth(starts, k)
            IN  Slice(s, i, RunEnd(s, i, Atoms \ {sep}))]

(***************************************************************************)
(* server_side_object.go: the data model and the allowed-type table.       *)
(***************************************************************************)
Parameter(t, n) == [Type |-> t, Name |-> n]

PublicMethod(ret, name, params) ==
    [AccessModifier |-> <<"public">>, ReturnType |-> ret,
     MethodName |-> name, Parameters |-> params]

ServerSideObject(path, className, packageLine, methods) ==
    [FilePath |-> path, ClassName |-> className,
     PackageLine |-> packageLine, DeclaredMethods |-> methods]

allowedTypes ==
    (<<"boolean">> :> <<"false">>) @@
    (<<"byte">>    :> <<"0">>) @@
    (<<"char">>    :> <<"'\\0'">>) @@
    (<<"short">>   :> <<"0">>) @@
    (<<"int">>     :> <<"0">>) @@
    (<<"long">>    :> <<"0L">>) @@
    (<<"float">>   :> <<"0.0f">>) @@
    (<<"double">>  :> <<"0.0">>) @@
    (<<"String">>  :> <<"null">>)

\* SuperclassMethods with nothing in it
SuperclassMethodsNone == <<>>

\* sso_super.go
SuperclassMethods == <<PublicMethod(<<"String">>, <<"getLastError">>, <<>>)>>

(***************************************************************************)
(* extractParameters and areParametersValid.                               *)
(***************************************************************************)
\* the modifier-skipping loop: for j < len(parts)-2 { final or @... : j++ }
RECURSIVE SkipModifiers(_, _)
SkipModifiers(parts, j) ==
    IF /\ j < Len(parts) - 2
       /\ (parts[j + 1] = <<"final">> \/ HasPrefixAt(parts[j + 1], 0, <<"@">>))
    THEN SkipModifiers(parts, j + 1)
    ELSE j

\* one element of paramPairs: strings.Fields(strings.TrimSpace(pair))
ParametersOfPair(pair) ==
    LET parts == Fields(pair)
        j == SkipModifiers(parts, 0)
    IN  IF Len(parts) >= 2
        THEN <<Parameter(parts[j + 1], parts[j + 2])>>
        ELSE <<>>

RECURSIVE ParametersOfPairs(_)
ParametersOfPairs(pairs) ==
    IF pairs = <<>> THEN <<>>
    ELSE ParametersOfPair(Head(pairs)) \o ParametersOfPairs(Tail(pairs))

extractParameters(s) ==
    IF s = <<>> THEN <<>> ELSE ParametersOfPairs(Split(s, ","))

\* areParametersValid that accepts every type
areParametersValidAny(ps) == TRUE

areParametersValid(ps) ==
    \A i \in 1..Len(ps) : ps[i].Type \in DOMAIN allowedTypes

(***************************************************************************)
(* The regular expressions of ScanForSSOs.  Each pattern is a fixed        *)
(* sequence of literals and greedy runs over disjoint character classes,   *)
(* so the leftmost match that Go's regexp finds is the one computed here.  *)
(***************************************************************************)
IdentAtoms == Words                             \* [a-zA-Z0-9_$]+
TypeAtoms == Words \cup {"<", ">", "[", "]"}    \* [a-zA-Z0-9_$<>\[\]]+
PackageAtoms == Words \cup {"."}                \* [a-zA-Z0-9_.]+

NoMatch == [ok |-> FALSE]

\* classPattern: `public class [a-zA-Z0-9_$]+ extends ServerSideObject` at i
ClassPatternAt(s, i) ==
    /\ HasPrefixAt(s, i, <<"public", " ", "class", " ">>)
    /\ LET e == RunEnd(s, i + 4, IdentAtoms)
       IN  /\ e > i + 4
           /\ HasPrefixAt(s, e, <<" ", "extends", " ", "ServerSideObject">>)

\* classPattern.MatchString(s)
ClassPatternMatch(s) == \E i \in 0..(Len(s) - 1) : ClassPatternAt(s, i)

\* packagePattern: `package ([a-zA-Z0-9_.]+);` at i
PackagePatternAt(s, i) ==
    IF ~HasPrefixAt(s, i, <<"package", " ">>) THEN NoMatch
    ELSE LET e == RunEnd(s, i + 2, PackageAtoms)
         IN  IF e > i + 2 /\ HasPrefixAt(s, e, <<";">>)
             THEN [ok |-> TRUE, sub |-> Slice(s, i + 2, e)]
             ELSE NoMatch

\* packagePattern.FindStringSubmatch(s), then packageMatch[1] or ""
PackageLineOf(s) ==
    LET hits == {i \in 0..(Len(s) - 1) : PackagePatternAt(s, i).ok}
    IN  IF hits = {} THEN <<>>
        ELSE PackagePatternAt(s, CHOOSE i \in hits : \A j \in hits : i <= j).sub

\* methodPattern at i:
\* `public\s+([a-zA-Z0-9_$<>\[\]]+)\s+([a-zA-Z0-9_$]+)\s*\(([^)]*)\)`
MethodPatternAt(s, i) ==
    IF ~HasPrefixAt(s, i, <<"public">>) THEN NoMatch
    ELSE LET ws1 == RunEnd(s, i + 1, Whitespace)
             ty == RunEnd(s, ws1, TypeAtoms)
             ws2 == RunEnd(s, ty, Whitespace)
             nm == RunEnd(s, ws2, IdentAtoms)
             ws3 == RunEnd(s, nm, Whitespace)
             open == ws3 + 1
             close == IF open <= Len(s)
                      THEN RunEnd(s, open, Atoms \ {")"})
                      ELSE open
         IN  IF /\ ws1 > i + 1
                /\ ty > ws1
                /\ ws2 > ty
                /\ nm > ws2
                /\ HasPrefixAt(s, ws3, <<"(">>)
                /\ HasPrefixAt(s, close, <<")">>)
             THEN [ok |-> TRUE, end |-> close + 1,
                   returnType |-> Slice(s, ws1, ty),
                   methodName |-> Slice(s, ws2, nm),
                   paramString |-> Slice(s, open, close)]
             ELSE NoMatch

\* methodPattern.FindAllStringSubmatch(s, -1): the leftmost match at or
\* after i, then the matches after its end
RECURSIVE FindAllMethods(_, _)
FindAllMethods(s, i) ==
    LET hits == {j \in i..(Len(s) - 1) : MethodPatternAt(s, j).ok}
    IN  IF hits = {} THEN <<>>
        ELSE LET m == MethodPatternAt(s, Min(hits))
             IN  <<m>> \o FindAllMethods(s, m.end)

(***************************************************************************)
(* removePrivateClasses.                                                   *)
(***************************************************************************)
\* BraceScan that does not count opening braces: it stops at the first
\* closing brace
BraceScanFlat(input, endIdx, count) ==
    IF endIdx < Len(input) /\ count > 0
    THEN LET b == RunEnd(input, endIdx, Atoms \ {"}"})
         IN  IF b = Len(input) THEN [endIdx |-> b, count |-> count]
             ELSE [endIdx |-> b + 1, count |-> 0]
    ELSE [endIdx |-> endIdx, count |-> count]

\* the inner loop: for endIdx < len(input) && count > 0.  Bytes that are
\* no brace leave count as it is, so the scan goes from brace to brace.
RECURSIVE BraceScan(_, _, _)
BraceScan(input, endIdx, count) ==
    IF endIdx < Len(input) /\ count > 0
    THEN LET b == RunEnd(input, endIdx, Atoms \ {"{", "}"})
         IN  IF b = Len(input) THEN [endIdx |-> b, count |-> count]
             ELSE BraceScan(input, b + 1,
                            IF input[b + 1] = "{" THEN count + 1 ELSE count - 1)
    ELSE [endIdx |-> endIdx, count |-> count]

RECURSIVE removePrivateClasses(_)
removePrivateClasses(input) ==
    LET startIdx == Index(input, <<"private", " ", "class", " ">>)
    IN  IF startIdx = -1 THEN input
        ELSE LET rel == Index(Slice(input, startIdx, Len(input)), <<"{">>)
             IN  IF rel = -1 THEN input
                 ELSE LET braceIdx == rel + startIdx
                          r == BraceScan(input, braceIdx + 1, 1)
                      IN  IF r.count = 0
                          THEN removePrivateClasses(
                                   Slice(input, 0, startIdx)
                                   \o Slice(input, r.endIdx, Len(input)))
                          ELSE input

(***************************************************************************)
(* ScanForSSOs.                                                            *)
(***************************************************************************)
\* filepath.Ext(name): from the last dot on, or "" without a dot
Ext(name) ==
    LET dot == LastIndex(name, <<".">>)
    IN  IF dot = -1 THEN <<>> ELSE Slice(name, dot, Len(name))

\* the loop over methodMatches: return type, then parameter types, decide
RECURSIVE DeclaredMethodsOf(_)
DeclaredMethodsOf(matches) ==
    IF matches = <<>> THEN <<>>
    ELSE LET match == Head(matches)
             ps == extractParameters(match.paramString)
             rest == DeclaredMethodsOf(Tail(matches))
         IN  IF match.returnType \notin DOMAIN allowedTypes THEN rest
             ELSE IF ~areParametersValid(ps) THEN rest
             ELSE <<PublicMethod(match.returnType, match.methodName, ps)>> \o rest

\* ClassContentOf that starts at the first class header of any name
ClassContentOfAnyName(normalizedContent, className) ==
    LET classStart == Index(normalizedContent, <<"class", " ">>)
        classEnd == LastIndex(normalizedContent, <<"}">>)
    IN  IF classStart = -1 \/ classEnd = -1
        THEN NoMatch
        ELSE [ok |-> TRUE,
              text |-> Slice(normalizedContent, classStart,
                             IF classEnd < classStart THEN Len(normalizedContent)
                             ELSE classEnd + 1)]

\* the class-definition boundaries; ok is false for "Invalid class definition"
ClassContentOf(normalizedContent, className) ==
    LET classStart == Index(normalizedContent,
                            <<"class", " ">> \o className
                            \o <<" ", "extends", " ", "ServerSideObject">>)
        classEnd == LastIndex(normalizedContent, <<"}">>)
    IN  IF classStart = -1 \/ classEnd = -1 \/ classStart >= classEnd
        THEN NoMatch
        ELSE [ok |-> TRUE,
              text |-> Slice(normalizedContent, classStart, classEnd + 1)]

\* the body of the walk callback once the file has been read: the units it
\* appends to matchingFiles (none or one)
UnitsOfContent(path, name, content) ==
    LET normalizedContent == Join(Fields(content), <<" ">>)
        className == Slice(name, 0, Len(name) - Len(Ext(name)))
        cc == ClassContentOf(normalizedContent, className)
    IN  IF ~ClassPatternMatch(normalizedContent) THEN <<>>
        ELSE IF ~cc.ok THEN <<>>
        ELSE <<ServerSideObject(
                   path, className, PackageLineOf(normalizedContent),
                   DeclaredMethodsOf(
                       FindAllMethods(removePrivateClasses(cc.text), 0))
                   \o SuperclassMethods)>>

\* the walk callback for one entry: the error it returns and what it appends
WalkFn(file) ==
    IF file.isDir
    THEN [err |-> ~file.readable, units |-> <<>>]
    ELSE IF ~HasSuffix(file.name, <<".", "java">>)
    THEN [err |-> FALSE, units |-> <<>>]
    ELSE IF ~file.readable
    THEN [err |-> TRUE, units |-> <<>>]
    ELSE [err |-> FALSE,
          units |-> UnitsOfContent(file.path, file.name, file.content)]

\* filepath.Walk: entries in order, stopping at the first error
RECURSIVE Walk(_, _)
Walk(entries, acc) ==
    IF entries = <<>> THEN [err |-> FALSE, units |-> acc]
    ELSE LET r == WalkFn(Head(entries))
         IN  IF r.err THEN [err |-> TRUE, units |-> acc]
             ELSE Walk(Tail(entries), acc \o r.units)

\* Go string comparison of the class names of the model, by their place in
\* byte order ("Z" sorts before "a")
NameOrder == <<"Alpha", "Beta", "Gamma", "Zeta", "alpha">>

Rank(className) ==
    CHOOSE k \in 1..Len(NameOrder) : <<NameOrder[k]>> = className

\* Less by descending ClassName
LessReversed(s, i, j) == Rank(s[i].ClassName) > Rank(s[j].ClassName)

\* ServerSideObjectList.Less
Less(s, i, j) == Rank(s[i].ClassName) < Rank(s[j].ClassName)

\* ServerSideObjectList.Swap
Swap(s, i, j) == [s EXCEPT ![i] = s[j], ![j] = s[i]]

\* sort.Sort on fewer than 12 elements: insertion sort by Less and Swap
RECURSIVE SiftDown(_, _)
SiftDown(s, j) ==
    IF j > 1 /\ Less(s, j, j - 1) THEN SiftDown(Swap(s, j, j - 1), j - 1) ELSE s

RECURSIVE InsertionSort(_, _)
InsertionSort(s, i) ==
    IF i > Len(s) THEN s ELSE InsertionSort(SiftDown(s, i), i + 1)

Sort(s) == InsertionSort(s, 2)

ScanForSSOs(entries) ==
    LET w == Walk(entries, <<>>)
    IN  [units |-> Sort(w.units), err |-> w.err]

(***************************************************************************)
(* WriteSimplifiedSSO.  The file is the sequence of strings handed to      *)
(* file.WriteString, one chunk per call.                                   *)
(***************************************************************************)
Indent == <<" ", " ", " ", " ">>

\* "type name" of each parameter, joined by ", "
RECURSIVE ParameterList(_, _)
ParameterList(ps, i) ==
    IF i > Len(ps) THEN <<>>
    ELSE (IF i > 1 THEN <<",", " ">> ELSE <<>>)
         \o ps[i].Type \o <<" ">> \o ps[i].Name \o ParameterList(ps, i + 1)

\* the body line of a stub: none for void, else return <default>;
MethodBody(method) ==
    IF method.ReturnType = <<"void">> THEN <<>>
    ELSE Indent \o Indent \o <<"return", " ">>
         \o (IF method.ReturnType \in DOMAIN allowedTypes
             THEN allowedTypes[method.ReturnType]
             ELSE <<"null">>)
         \o <<";", "\n">>

\* methodSignature as written for one method
MethodStub(method) ==
    Indent \o <<"public", " ">> \o method.ReturnType \o <<" ">>
    \o method.MethodName \o <<"(">> \o ParameterList(method.Parameters, 1)
    \o <<")", " ", "{", "\n">>
    \o MethodBody(method)
    \o Indent \o <<"}", "\n", "\n">>

\* every string WriteSimplifiedSSO writes, in order
Chunks(sso) ==
    << <<"package", " ">> \o sso.PackageLine \o <<";", "\n", "\n">>,
       <<"public", " ", "class", " ">> \o sso.ClassName \o <<" ", "{", "\n", "\n">>,
       Indent \o <<"public", " ">> \o sso.ClassName
           \o <<"(", ")", " ", "{", "}", "\n", "\n">> >>
    \o [i \in 1..Len(sso.DeclaredMethods) |-> MethodStub(sso.DeclaredMethods[i])]
    \o << <<"}", "\n">> >>

\* filepath.Join(outputDir, sso.ClassName+".java"), relative to outputDir
OutputFileName(sso) == sso.ClassName \o <<".", "java">>

\* the ways a call can go: 0 no failure, -2 MkdirAll fails, -1 os.Create
\* fails, k >= 1 the k-th WriteString fails
WriteFaults(sso) == (-2)..Len(Chunks(sso))

\* one call: the error returned and the output directory afterwards
WriteSimplifiedSSO(dir, sso, fault) ==
    LET name == OutputFileName(sso)
        written == IF fault = 0 THEN Chunks(sso)
                   ELSE SubSeq(Chunks(sso), 1, fault - 1)
    IN  IF fault < 0
        THEN [err |-> TRUE, dir |-> dir]
        ELSE [err |-> fault # 0,
              dir |-> [f \in DOMAIN dir \cup {name} |->
                          IF f = name THEN written ELSE dir[f]]]

(***************************************************************************)
(* The inputs of the model: Java source texts rendered from a declaration  *)
(* (the members a class declares, in order), and input trees made of them. *)
(* A file record keeps the declaration it was rendered from, so that what  *)
(* the scan recovers can be compared with what the source declares.        *)
(***************************************************************************)
Param(mods, type, name) == [mods |-> mods, type |-> type, name |-> name]

Method(ret, name, params) ==
    [kind |-> "method", ret |-> ret, name |-> name, params |-> params]

mReset == Method(<<"void">>, <<"reset">>, <<>>)
mGetX == Method(<<"int">>, <<"getX">>, <<>>)
mIsY == Method(<<"boolean">>, <<"isY">>, <<>>)
mAdd == Method(<<"String">>, <<"add">>,
               <<Param(<<>>, <<"int">>, <<"a">>),
                 Param(<< <<"final">>, <<"@", "Ann">> >>, <<"String">>, <<"b">>)>>)
mBad == Method(<<"int">>, <<"bad">>,
               <<Param(<<>>, <<"Foo">>, <<"f">>), Param(<<>>, <<"int">>, <<"n">>)>>)
mMake == Method(<<"Foo">>, <<"make">>, <<>>)
mSecret == Method(<<"int">>, <<"secret">>, <<>>)

\* a nested `private class Helper { ... }` whose body holds blocks nested
\* depth deep and the public method secret
PrivateClass(depth) == [kind |-> "private", depth |-> depth, inner |-> mSecret]

Members == {mReset, mGetX, mIsY, mAdd, mBad, mMake}
           \cup {PrivateClass(d) : d \in 0..MaxDepth}

\* every sequence of at most n distinct members
RECURSIVE SeqsUpTo(_, _)
SeqsUpTo(S, n) ==
    IF n = 0 THEN {<<>>}
    ELSE LET shorter == SeqsUpTo(S, n - 1)
         IN  shorter \cup {Append(q, x) : q \in shorter, x \in S}

DistinctSeqsUpTo(S, n) ==
    {q \in SeqsUpTo(S, n) : \A i, j \in 1..Len(q) : i # j => q[i] # q[j]}

\* whitespace of the two layouts: 1 is one space, 2 mixes runs and newlines
Layouts == {1, 2}

Gap(layout) == IF layout = 1 THEN <<" ">> ELSE <<" ", "\t">>

RECURSIVE Blocks(_)
Blocks(d) == IF d = 0 THEN <<>> ELSE <<"{", " ">> \o Blocks(d - 1) \o <<"}", " ">>

RenderParam(p, layout) == Join(p.mods \o <<p.type, p.name>>, Gap(layout))

RenderMethod(m, layout) ==
    <<"public">> \o Gap(layout) \o m.ret \o Gap(layout) \o m.name
    \o (IF layout = 1 THEN <<>> ELSE <<" ">>)
    \o <<"(">>
    \o Join([i \in 1..Len(m.params) |-> RenderParam(m.params[i], layout)],
            IF layout = 1 THEN <<",", " ">> ELSE <<" ", ",", "\n">>)
    \o <<")", " ", "{", " ">> \o Blocks(1)
    \o (IF m.ret = <<"void">> THEN <<>> ELSE <<"return", " ", "x", ";", " ">>)
    \o <<"}", "\n">>

RenderPrivateClass(c, layout) ==
    <<"private">> \o Gap(layout) \o <<"class">> \o Gap(layout)
    \o <<"Helper", " ", "{", "\n", "int", " ", "inner", "(", ")", " ", "{", " ">>
    \o Blocks(c.depth) \o <<"}", "\n">>
    \o RenderMethod(c.inner, layout) \o <<"}", "\n">>

RenderMember(m, layout) ==
    IF m.kind = "method" THEN RenderMethod(m, layout)
    ELSE RenderPrivateClass(m, layout)

\* the text of a class `declared` with these members, in a file of a package
RenderClass(declared, super, pkg, members, layout) ==
    <<"package", " ">> \o pkg \o <<";", "\n", "\n">>
    \o <<"public">> \o Gap(layout) \o <<"class">> \o Gap(layout)
    \o <<declared>> \o Gap(layout) \o <<"extends">> \o Gap(layout)
    \o <<super, " ", "{", "\n">>
    \o Flatten([i \in 1..Len(members) |-> RenderMember(members[i], layout)])
    \o <<"}", "\n">>

\* an entry of the input tree
Entry(path, name, isDir, content, kind, members) ==
    [path |-> path, name |-> name, isDir |-> isDir, readable |-> TRUE,
     content |-> content, kind |-> kind, members |-> members]

SourceFile(path, base, declared, pkg, members, layout, kind) ==
    Entry(path, <<base, ".", "java">>, FALSE,
          RenderClass(declared, "ServerSideObject", pkg, members, layout),
          kind, members)

\* the entries input trees are made of; kind says how the entry was built:
\*   "sso"       a class extending ServerSideObject in a file of its name
\*   "mismatch"  such a class in a file of another name
\*   "truncated" the class declaration comes after the last closing brace
\*   "plain"     a class that does not extend ServerSideObject
\*   "other"     not a .java file
\*   "dir"       a directory
TreeEntries ==
    { SourceFile("in/a/Alpha.java", "Alpha", "Alpha", <<"com", ".", "acme">>,
                 <<mGetX>>, 1, "sso"),
      SourceFile("in/b/Alpha.java", "Alpha", "Alpha", <<"com", ".", "b">>,
                 <<mIsY>>, 2, "sso"),
      SourceFile("in/b/Beta.java", "Beta", "Beta", <<"com", ".", "b">>,
                 <<mAdd>>, 1, "sso"),
      SourceFile("in/alpha.java", "alpha", "alpha", <<"com">>,
                 <<mGetX>>, 2, "sso"),
      SourceFile("in/Zeta.java", "Zeta", "Gamma", <<"com">>,
                 <<mGetX>>, 1, "mismatch"),
      Entry("in/Gamma.java", <<"Gamma", ".", "java">>, FALSE,
            <<"class", " ", "Plain", " ", "{", " ", "}", "\n", "public", " ",
              "class", " ", "Gamma", " ", "extends", " ", "ServerSideObject",
              "\n">>,
            "truncated", <<>>),
      Entry("in/Plain.java", <<"Plain", ".", "java">>, FALSE,
            RenderClass("Plain", "Object", <<"com">>, <<mGetX>>, 1),
            "plain", <<mGetX>>),
      Entry("in/Beta.txt", <<"Beta", ".", "txt">>, FALSE,
            RenderClass("Beta", "ServerSideObject", <<"com">>, <<mGetX>>, 1),
            "other", <<mGetX>>),
      Entry("in/a", <<"a">>, TRUE, <<>>, "dir", <<>>) }

\* the trees: up to MaxFiles entries in any visiting order, at most one of
\* them unreadable
Trees ==
    LET orders == DistinctSeqsUpTo(TreeEntries, MaxFiles)
    IN  orders \cup
        UNION {{[q EXCEPT ![k].readable = FALSE] : k \in 1..Len(q)} : q \in orders}

\* one generated class: every order of up to MaxItems members, both layouts
GeneratedTrees ==
    { <<SourceFile("in/Alpha.java", "Alpha", "Alpha", <<"com", ".", "acme">>,
                   ms, layout, "sso")>> :
        ms \in DistinctSeqsUpTo(Members, MaxItems), layout \in Layouts }

\* os.Args, as main reads it: noArgs is len(os.Args) == 1, the others are
\* the flags given (a path flag is true when it is not the empty string)
ArgProfiles ==
    {a \in [noArgs : BOOLEAN, help : BOOLEAN, inputPath : BOOLEAN,
            outputPath : BOOLEAN, compile : BOOLEAN] :
        a.noArgs => ~(a.help \/ a.inputPath \/ a.outputPath \/ a.compile)}

RunArgs == [noArgs |-> FALSE, help |-> FALSE, inputPath |-> TRUE,
            outputPath |-> TRUE, compile |-> FALSE]

(***************************************************************************)
(* main.                                                                   *)
(***************************************************************************)
\* the exit statuses main passes to os.Exit, and 0 for returning from main
ExitSuccess == 0
ExitUsage == 1
ExitScanError == 1
ExitCompileFailure == 1

Idle ==
    /\ paramString = <<>>
    /\ parameters = <<>>
    /\ xpc = "idle"
    /\ stripInput = <<>>
    /\ stripOrig = <<>>
    /\ spc = "idle"

Init ==
    /\ \/ args \in ArgProfiles /\ files \in Trees
       \/ args = RunArgs /\ files \in GeneratedTrees
    /\ pc = "start"
    /\ exitCode = -1
    /\ outcome = "running"
    /\ matchingFiles = <<>>
    /\ idx = 0
    /\ outDir = <<>>
    /\ writeCalls = <<>>
    /\ reported = <<>>
    /\ Idle

Exit(status, how) ==
    /\ pc' = "exit"
    /\ exitCode' = status
    /\ outcome' = how

\* lines 28-51: no arguments, the required flags, --help
MainFlags ==
    /\ pc = "start"
    /\ IF args.noArgs THEN Exit(ExitSuccess, "help")
       ELSE IF ~args.inputPath \/ ~args.outputPath THEN Exit(ExitUsage, "usage")
       ELSE IF args.help THEN Exit(ExitSuccess, "help")
       ELSE pc' = "scan" /\ UNCHANGED <<exitCode, outcome>>
    /\ UNCHANGED <<args, files, matchingFiles, idx, outDir, writeCalls, reported,
                   paramString, parameters, xpc,
                   stripInput, stripOrig, spc>>

\* lines 53-65: the scan and its error
MainScan ==
    /\ pc = "scan"
    /\ LET r == ScanForSSOs(files)
       IN  /\ matchingFiles' = r.units
           /\ IF r.err THEN Exit(ExitScanError, "scanError")
              ELSE pc' = "write" /\ UNCHANGED <<exitCode, outcome>>
    /\ UNCHANGED <<args, files, idx, outDir, writeCalls, reported,
                   paramString, parameters, xpc,
                   stripInput, stripOrig, spc>>

\* MainWrite that leaves the loop and the process at the first failure
MainWriteAbort ==
    /\ pc = "write"
    /\ idx < Len(matchingFiles)
    /\ LET sso == matchingFiles[idx + 1]
       IN  \E fault \in WriteFaults(sso) :
               LET r == WriteSimplifiedSSO(outDir, sso, fault)
               IN  /\ outDir' = r.dir
                   /\ writeCalls' = Append(writeCalls,
                          [sso |-> sso, err |-> r.err,
                           written |-> IF fault < 0 THEN <<>>
                                       ELSE r.dir[OutputFileName(sso)]])
                   /\ reported' = IF r.err THEN Append(reported, sso.ClassName)
                                  ELSE reported
                   /\ IF r.err THEN Exit(1, "writeError")
                      ELSE UNCHANGED <<pc, exitCode, outcome>>
    /\ idx' = idx + 1
    /\ UNCHANGED <<args, files, matchingFiles, paramString, parameters, xpc,
                   stripInput, stripOrig, spc>>

\* lines 68-73: one iteration of the range loop
MainWrite ==
    /\ pc = "write"
    /\ idx < Len(matchingFiles)
    /\ LET sso == matchingFiles[idx + 1]
       IN  \E fault \in WriteFaults(sso) :
               LET r == WriteSimplifiedSSO(outDir, sso, fault)
               IN  /\ outDir' = r.dir
                   /\ writeCalls' = Append(writeCalls,
                          [sso |-> sso, err |-> r.err,
                           written |-> IF fault < 0 THEN <<>>
                                       ELSE r.dir[OutputFileName(sso)]])
                   /\ reported' = IF r.err THEN Append(reported, sso.ClassName)
                                  ELSE reported
    /\ idx' = idx + 1
    /\ UNCHANGED <<args, files, pc, exitCode, outcome, matchingFiles,
                   paramString, parameters, xpc,
                   stripInput, stripOrig, spc>>

\* the .java files filepath.Walk finds under the output directory
JavaFiles == {f \in DOMAIN outDir : HasSuffix(f, <<".", "java">>)}

\* lines 74-77 and 130: the loop is over and --compile was not given
MainReturn ==
    /\ pc = "write"
    /\ idx = Len(matchingFiles)
    /\ ~args.compile
    /\ Exit(ExitSuccess, "success")
    /\ UNCHANGED <<args, files, matchingFiles, idx, outDir, writeCalls, reported,
                   paramString, parameters, xpc,
                   stripInput, stripOrig, spc>>

\* MainCompile that reports a failing jar and returns from main all the same
MainCompileNoExit ==
    /\ pc = "write"
    /\ idx = Len(matchingFiles)
    /\ args.compile
    /\ \E step \in {"walk", "javac", "jar", "none"} :
           IF step = "walk" THEN Exit(ExitCompileFailure, "compileFailure")
           ELSE IF JavaFiles = {} THEN Exit(ExitCompileFailure, "compileFailure")
           ELSE IF step = "javac" THEN Exit(ExitCompileFailure, "compileFailure")
           ELSE IF step = "jar" THEN Exit(ExitSuccess, "compileFailure")
           ELSE Exit(ExitSuccess, "success")
    /\ UNCHANGED <<args, files, matchingFiles, idx, outDir, writeCalls, reported,
                   paramString, parameters, xpc,
                   stripInput, stripOrig, spc>>

\* lines 77-129: the compile step; step names what goes wrong in it
MainCompile ==
    /\ pc = "write"
    /\ idx = Len(matchingFiles)
    /\ args.compile
    /\ \E step \in {"walk", "javac", "jar", "none"} :
           IF step = "walk" THEN Exit(ExitCompileFailure, "compileFailure")
           ELSE IF JavaFiles = {} THEN Exit(ExitCompileFailure, "compileFailure")
           ELSE IF step = "javac" THEN Exit(ExitCompileFailure, "compileFailure")
           ELSE IF step = "jar" THEN Exit(ExitCompileFailure, "compileFailure")
           ELSE Exit(ExitSuccess, "success")
    /\ UNCHANGED <<args, files, matchingFiles, idx, outDir, writeCalls, reported,
                   paramString, parameters, xpc,
                   stripInput, stripOrig, spc>>

Next == MainFlags \/ MainScan \/ MainWrite \/ MainReturn \/ MainCompile

Spec == Init /\ [][Next]_vars

(***************************************************************************)
(* extractParameters on its own: every parameter list of one generated     *)
(* piece, alone or followed by the piece `int x`.                          *)
(***************************************************************************)
Tokens == {<<"final">>, <<"@", "Ann">>, <<"int">>, <<"Foo">>, <<"x">>}

Pieces == SeqsUpTo(Tokens, MaxTokens)

\* a piece as it stands in the source: a space in front, tokens one space apart
RenderPiece(piece) == <<" ">> \o Join(piece, <<" ">>)

PieceLists == {<<p>> : p \in Pieces} \cup {<<p, <<<<"int">>, <<"x">>>>>> : p \in Pieces}

InitParams ==
    /\ \E ps \in PieceLists :
           paramString = Join([i \in 1..Len(ps) |-> RenderPiece(ps[i])], <<",">>)
    /\ parameters = <<>>
    /\ xpc = "call"
    /\ args = RunArgs
    /\ files = <<>>
    /\ pc = "idle"
    /\ exitCode = -1
    /\ outcome = "running"
    /\ matchingFiles = <<>>
    /\ idx = 0
    /\ outDir = <<>>
    /\ writeCalls = <<>>
    /\ reported = <<>>
    /\ stripInput = <<>>
    /\ stripOrig = <<>>
    /\ spc = "idle"

ExtractCall ==
    /\ xpc = "call"
    /\ parameters' = extractParameters(paramString)
    /\ xpc' = "done"
    /\ UNCHANGED <<args, files, pc, exitCode, outcome, matchingFiles, idx, outDir,
                   writeCalls, reported, paramString,
                   stripInput, stripOrig, spc>>

NextParams == ExtractCall

SpecParams == InitParams /\ [][NextParams]_vars

(***************************************************************************)
(* removePrivateClasses on its own, one iteration of its for loop per      *)
(* step: every text of up to MaxSegments segments.                         *)
(***************************************************************************)
Segments == {<<"private", " ", "class", " ">>, <<"private", " ">>,
             <<"class", " ">>, <<"{">>, <<"}">>}

StripTexts == {Flatten(q) : q \in SeqsUpTo(Segments, MaxSegments)}

InitStrip ==
    /\ stripInput = <<>>
    /\ stripOrig = <<>>
    /\ spc = "call"
    /\ paramString = <<>>
    /\ parameters = <<>>
    /\ xpc = "idle"
    /\ args = RunArgs
    /\ files = <<>>
    /\ pc = "idle"
    /\ exitCode = -1
    /\ outcome = "running"
    /\ matchingFiles = <<>>
    /\ idx = 0
    /\ outDir = <<>>
    /\ writeCalls = <<>>
    /\ reported = <<>>

\* the call: `input` is the argument
StripCall ==
    /\ spc = "call"
    /\ \E text \in StripTexts : stripInput' = text /\ stripOrig' = text
    /\ spc' = "loop"
    /\ UNCHANGED <<args, files, pc, exitCode, outcome, matchingFiles, idx, outDir,
                   writeCalls, reported, paramString, parameters, xpc>>

\* an iteration that finds the closing brace and leaves the text as it is
StripIterationKeep ==
    /\ spc = "loop"
    /\ \E startIdx \in {Index(stripInput, <<"private", " ", "class", " ">>)} :
       \E rel \in {IF startIdx = -1 THEN -1
                   ELSE Index(Slice(stripInput, startIdx, Len(stripInput)), <<"{">>)} :
       \E r \in {IF rel = -1 THEN [endIdx |-> 0, count |-> 1]
                 ELSE BraceScan(stripInput, rel + startIdx + 1, 1)} :
           IF startIdx = -1 \/ rel = -1
           THEN spc' = "returned" /\ stripInput' = stripInput
           ELSE IF r.count = 0
           THEN spc' = "loop" /\ stripInput' = stripInput
           ELSE spc' = "returned" /\ stripInput' = stripInput
    /\ UNCHANGED <<args, files, pc, exitCode, outcome, matchingFiles, idx, outDir,
                   writeCalls, reported, paramString, parameters, xpc, stripOrig>>

\* one iteration of `for { ... }`: break leads to `return input`.  startIdx,
\* rel (braceIdx before `braceIdx += startIdx`) and r (endIdx and count
\* after the inner loop) are each computed once.
StripIteration ==
    /\ spc = "loop"
    /\ \E startIdx \in {Index(stripInput, <<"private", " ", "class", " ">>)} :
       \E rel \in {IF startIdx = -1 THEN -1
                   ELSE Index(Slice(stripInput, startIdx, Len(stripInput)), <<"{">>)} :
       \E r \in {IF rel = -1 THEN [endIdx |-> 0, count |-> 1]
                 ELSE BraceScan(stripInput, rel + startIdx + 1, 1)} :
           IF startIdx = -1 \/ rel = -1
           THEN spc' = "returned" /\ stripInput' = stripInput
           ELSE IF r.count = 0
           THEN /\ spc' = "loop"
                /\ stripInput' = Slice(stripInput, 0, startIdx)
                                 \o Slice(stripInput, r.endIdx, Len(stripInput))
           ELSE spc' = "returned" /\ stripInput' = stripInput
    /\ UNCHANGED <<args, files, pc, exitCode, outcome, matchingFiles, idx, outDir,
                   writeCalls, reported, paramString, parameters, xpc, stripOrig>>

NextStrip == StripCall \/ StripIteration

\* the loop is sequential code: an iteration that can run does run
SpecStrip == InitStrip /\ [][NextStrip]_vars /\ WF_vars(StripIteration)

(***************************************************************************)
(* What the source text declares, read off the declaration a file was      *)
(* rendered from, and what the run has done so far.                        *)
(***************************************************************************)
\* the scan returned without error: main is in or past its write loop
ScannedOk == pc = "write" \/ (pc = "exit" /\ outcome \in {"success", "compileFailure"})

\* ScanForSSOs has returned, with or without error
Scanned == ScannedOk \/ (pc = "exit" /\ outcome = "scanError")

IsTypeKey(t) == t \in {<<"boolean">>, <<"byte">>, <<"char">>, <<"short">>, <<"int">>,
                       <<"long">>, <<"float">>, <<"double">>, <<"String">>}

IsTopMethod(m) == m.kind = "method"

ParamTypesAllowed(m) == \A i \in 1..Len(m.params) : IsTypeKey(m.params[i].type)

\* the signature record a declared method stands for
Signature(m) ==
    [AccessModifier |-> <<"public">>, ReturnType |-> m.ret, MethodName |-> m.name,
     Parameters |-> [i \in 1..Len(m.params) |->
                        [Type |-> m.params[i].type, Name |-> m.params[i].name]]]

\* the units scanned from a file
UnitsFrom(file) ==
    {i \in 1..Len(matchingFiles) : matchingFiles[i].FilePath = file.path}

\* the stub of a signature with this return statement (none for <<>>)
StubText(sig, returned) ==
    <<" ", " ", " ", " ", "public", " ">> \o sig.ReturnType \o <<" ">>
    \o sig.MethodName \o <<"(">>
    \o Join([i \in 1..Len(sig.Parameters) |->
                sig.Parameters[i].Type \o <<" ">> \o sig.Parameters[i].Name],
            <<",", " ">>)
    \o <<")", " ", "{", "\n">>
    \o (IF returned = <<>> THEN <<>>
        ELSE <<" ", " ", " ", " ", " ", " ", " ", " ", "return", " ">>
             \o returned \o <<";", "\n">>)
    \o <<" ", " ", " ", " ", "}", "\n", "\n">>

\* the calls of the writer that returned no error, for unit i
CompleteWritesOf(i) ==
    {k \in 1..Len(writeCalls) :
        writeCalls[k].sso = matchingFiles[i] /\ ~writeCalls[k].err}

Holds(chunks, text) == \E k \in 1..Len(chunks) : chunks[k] = text

(***************************************************************************)
(* C1: a method declared `public void name(params)` outside any nested     *)
(* private class, its parameter types all in the allowed-type table, is in *)
(* the unit ScanForSSOs returns and is written as a stub with an empty     *)
(* body; a kept method whose return type T is in the table is written with *)
(* the body `return allowedTypes[T];`.                                     *)
(***************************************************************************)
C1_VoidAndTypedMethodsStubbed ==
    ScannedOk =>
        \A f \in 1..Len(files) : \A j \in 1..Len(files[f].members) :
            LET file == files[f]
                m == file.members[j]
            IN  (/\ file.kind = "sso"
                 /\ IsTopMethod(m)
                 /\ ParamTypesAllowed(m)
                 /\ (m.ret = <<"void">> \/ IsTypeKey(m.ret)))
                => \E i \in UnitsFrom(file) :
                       /\ \E k \in 1..Len(matchingFiles[i].DeclaredMethods) :
                              matchingFiles[i].DeclaredMethods[k] = Signature(m)
                       /\ \A c \in CompleteWritesOf(i) :
                              Holds(writeCalls[c].written,
                                    StubText(Signature(m),
                                             IF m.ret = <<"void">> THEN <<>>
                                             ELSE allowedTypes[m.ret]))

\* the typed half of C1 has happened: getX was kept and written `return 0;`
C1_TypedStubWritten ==
    /\ pc = "exit"
    /\ \E c \in 1..Len(writeCalls) :
           /\ ~writeCalls[c].err
           /\ Holds(writeCalls[c].written,
                    StubText(Signature(mGetX), <<"0">>))

(***************************************************************************)
(* C2: a public method declared inside a nested `private class` is never   *)
(* in the method list of a unit, nor in a stub, wherever the nested class  *)
(* stands in the body and however deep the braces inside it nest.          *)
(***************************************************************************)
C2_NoPrivateClassMethods ==
    Scanned =>
        /\ \A i \in 1..Len(matchingFiles) :
               \A k \in 1..Len(matchingFiles[i].DeclaredMethods) :
                   matchingFiles[i].DeclaredMethods[k].MethodName # mSecret.name
        /\ \A c \in 1..Len(writeCalls) :
               \A k \in 1..Len(writeCalls[c].written) :
                   \A a \in 1..Len(writeCalls[c].written[k]) :
                       <<writeCalls[c].written[k][a]>> # mSecret.name

\* a class with the deepest nested private class between two methods has
\* been scanned and its stub written
C2_NestedClassScanned ==
    /\ pc = "exit"
    /\ Len(files) = 1
    /\ Len(files[1].members) = 3
    /\ files[1].members[2] = PrivateClass(MaxDepth)
    /\ IsTopMethod(files[1].members[1])
    /\ IsTopMethod(files[1].members[3])
    /\ Len(writeCalls) = 1
    /\ ~writeCalls[1].err

(***************************************************************************)
(* C3: a public method with a parameter whose type is no key of the        *)
(* allowed-type table is absent from the unit (not kept with the parameter *)
(* removed); the other public methods of the class whose return and        *)
(* parameter types are all allowed are present, in source order.           *)
(***************************************************************************)
HasDisallowedParam(m) == IsTopMethod(m) /\ ~ParamTypesAllowed(m)

FullyAllowed(m) == IsTopMethod(m) /\ IsTypeKey(m.ret) /\ ParamTypesAllowed(m)

\* the signatures of the fully allowed methods of a file, in source order
AllowedSignatures(file) ==
    LET ms == SelectSeq(file.members, FullyAllowed)
    IN  [k \in 1..Len(ms) |-> Signature(ms[k])]

IsAllowedSignature(sig) ==
    \E m \in Members : FullyAllowed(m) /\ sig = Signature(m)

C3_DisallowedParameterDropsMethod ==
    ScannedOk =>
        \A f \in 1..Len(files) :
            LET file == files[f]
            IN  (/\ file.kind = "sso"
                 /\ \E j \in 1..Len(file.members) : HasDisallowedParam(file.members[j]))
                => /\ UnitsFrom(file) # {}
                   /\ \A i \in UnitsFrom(file) :
                       /\ \A j \in 1..Len(file.members) :
                              HasDisallowedParam(file.members[j]) =>
                                  \A k \in 1..Len(matchingFiles[i].DeclaredMethods) :
                                      matchingFiles[i].DeclaredMethods[k].MethodName
                                          # file.members[j].name
                       /\ SelectSeq(matchingFiles[i].DeclaredMethods,
                                    IsAllowedSignature)
                              = AllowedSignatures(file)

\* a class declaring add, bad, getX in this order has been scanned
C3_BadBetweenSiblingsScanned ==
    /\ ScannedOk
    /\ Len(files) = 1
    /\ files[1].members = <<mAdd, mBad, mGetX>>
    /\ Len(matchingFiles) = 1

(***************************************************************************)
(* C4: every unit ScanForSSOs returns ends with getLastError (String, no   *)
(* parameters), and every stub written in full holds                       *)
(* `public String getLastError()` with the body `return null;`.            *)
(***************************************************************************)
GetLastError ==
    [AccessModifier |-> <<"public">>, ReturnType |-> <<"String">>,
     MethodName |-> <<"getLastError">>, Parameters |-> <<>>]

C4_SuperclassMethodsLast ==
    Scanned =>
        /\ \A i \in 1..Len(matchingFiles) :
               LET ms == matchingFiles[i].DeclaredMethods
               IN  ms # <<>> /\ ms[Len(ms)] = GetLastError
        /\ \A c \in 1..Len(writeCalls) :
               ~writeCalls[c].err =>
                   Holds(writeCalls[c].written, StubText(GetLastError, <<"null">>))

\* a class that declares no method the scan keeps has been written in full
C4_StubOfEmptyClassWritten ==
    /\ pc = "exit"
    /\ Len(files) = 1
    /\ files[1].members = <<mMake>>
    /\ Len(writeCalls) = 1
    /\ ~writeCalls[1].err
    /\ Len(matchingFiles[1].DeclaredMethods) = 1

(***************************************************************************)
(* C5: after a run in which no write fails, the output directory holds     *)
(* exactly one stub file per unit ScanForSSOs returned, named              *)
(* <ClassName>.java; two qualifying files in different subdirectories each *)
(* have their own stub and neither overwrites the other.                   *)
(***************************************************************************)
AllWritten ==
    /\ pc = "exit"
    /\ outcome \in {"success", "compileFailure"}
    /\ reported = <<>>

C5_OneStubPerUnit ==
    AllWritten =>
        /\ Cardinality(DOMAIN outDir) = Len(matchingFiles)
        /\ \A i \in 1..Len(matchingFiles) :
               /\ matchingFiles[i].ClassName \o <<".", "java">> \in DOMAIN outDir
               /\ outDir[matchingFiles[i].ClassName \o <<".", "java">>]
                      = Chunks(matchingFiles[i])

(***************************************************************************)
(* C6: whatever the order in which the traversal visits the files, the     *)
(* list ScanForSSOs returns is in non-decreasing order of ClassName, and   *)
(* main writes the stubs in that order.                                    *)
(***************************************************************************)
\* byte order of two class names of the model
NameLeq(a, b) ==
    \E i, j \in 1..Len(NameOrder) :
        /\ a = <<NameOrder[i]>>
        /\ b = <<NameOrder[j]>>
        /\ i <= j

C6_SortedByClassName ==
    Scanned =>
        /\ \A i, j \in 1..Len(matchingFiles) :
               i < j => NameLeq(matchingFiles[i].ClassName, matchingFiles[j].ClassName)
        /\ Len(writeCalls) <= Len(matchingFiles)
        /\ \A k \in 1..Len(writeCalls) : writeCalls[k].sso = matchingFiles[k]
        /\ ScannedOk /\ pc = "exit" => Len(writeCalls) = Len(matchingFiles)

\* alpha.java was visited before Beta.java, and both stubs were written
C6_VisitedOutOfOrder ==
    /\ pc = "exit"
    /\ Len(files) = 2
    /\ files[1].path = "in/alpha.java"
    /\ files[2].path = "in/b/Beta.java"
    /\ Len(writeCalls) = 2
    /\ writeCalls[1].sso.ClassName = <<"Beta">>
    /\ writeCalls[2].sso.ClassName = <<"alpha">>

(***************************************************************************)
(* C7: when WriteSimplifiedSSO fails for a unit, main reports it and still *)
(* calls WriteSimplifiedSSO for every remaining unit of the sorted list;   *)
(* the failure alone does not make the exit status non-zero.               *)
(***************************************************************************)
\* the class names of the calls that returned an error, in call order
FailedNames ==
    LET failed == SelectSeq(writeCalls, LAMBDA c : c.err)
    IN  [k \in 1..Len(failed) |-> failed[k].sso.ClassName]

C7_WriteFailureDoesNotAbort ==
    /\ reported = FailedNames
    /\ pc = "exit" /\ reported # <<>> =>
           /\ Len(writeCalls) = Len(matchingFiles)
           /\ \A k \in 1..Len(writeCalls) : writeCalls[k].sso = matchingFiles[k]
           /\ ~args.compile => exitCode = 0

\* the first of two units failed, the second was written, the status is 0
C7_FirstWriteFailed ==
    /\ pc = "exit"
    /\ Len(matchingFiles) = 2
    /\ Len(writeCalls) = 2
    /\ writeCalls[1].err
    /\ ~writeCalls[2].err
    /\ reported = <<matchingFiles[1].ClassName>>
    /\ exitCode = 0

(***************************************************************************)
(* C8: the exit status differs between a usage error, success and a        *)
(* compile-step failure: no two of the three end with the same status.     *)
(***************************************************************************)
\* the claim as made: an outcome never ends with the status of another one
C8_ThreeDistinctStatuses ==
    pc = "exit" =>
        /\ outcome = "usage" => exitCode \notin {ExitSuccess, ExitCompileFailure}
        /\ outcome = "success" => exitCode \notin {ExitUsage, ExitCompileFailure}
        /\ outcome = "compileFailure" => exitCode \notin {ExitSuccess, ExitUsage}

\* C8 as amended: success ends with status 0, a usage error and a
\* compile-step failure both end with status 1
C8_SuccessZeroFailuresOne ==
    pc = "exit" =>
        /\ outcome = "success" => exitCode = 0
        /\ outcome = "usage" => exitCode = 1
        /\ outcome = "compileFailure" => exitCode = 1

\* the archiver was reached (stubs exist) and the compile step failed
C8_CompileStepFailed ==
    /\ pc = "exit"
    /\ outcome = "compileFailure"
    /\ JavaFiles # {}
    /\ exitCode = 1

(***************************************************************************)
(* C9: for every comma-separated piece, extractParameters skips all        *)
(* leading tokens that equal `final` or begin with `@`, then takes the     *)
(* next two tokens as type and name; a piece with fewer than two tokens    *)
(* left after skipping yields no Parameter.                                *)
(***************************************************************************)
IsModifier(token) == token = <<"final">> \/ (token # <<>> /\ token[1] = "@")

\* the tokens of a piece after all its leading modifiers
AfterModifiers(tokens) ==
    LET kept == {k \in 1..Len(tokens) : ~IsModifier(tokens[k])}
    IN  IF kept = {} THEN <<>> ELSE SubSeq(tokens, Min(kept), Len(tokens))

ClaimedParametersOfPiece(piece) ==
    LET rest == AfterModifiers(Fields(piece))
    IN  IF Len(rest) >= 2 THEN <<[Type |-> rest[1], Name |-> rest[2]]>> ELSE <<>>

ClaimedParameters(s) ==
    IF s = <<>> THEN <<>>
    ELSE LET pieces == Split(s, ",")
         IN  Flatten([k \in 1..Len(pieces) |-> ClaimedParametersOfPiece(pieces[k])])

C9_ModifiersSkippedThenTypeAndName ==
    xpc = "done" => parameters = ClaimedParameters(paramString)

(***************************************************************************)
(* C10: a file whose text matches the class pattern but does not contain   *)
(* `class <file base name> extends ServerSideObject`, or whose last `}`    *)
(* does not come after that start, contributes no unit and no error, and   *)
(* every file visited after it is still scanned.                           *)
(***************************************************************************)
IsInvalidClassFile(file) == file.kind \in {"mismatch", "truncated"}

AllReadable == \A k \in 1..Len(files) : files[k].readable

C10_InvalidClassFileSkipped ==
    Scanned =>
        \A f \in 1..Len(files) :
            IsInvalidClassFile(files[f]) /\ (\A k \in 1..f : files[k].readable) =>
                /\ UnitsFrom(files[f]) = {}
                /\ AllReadable => ScannedOk
                /\ \A g \in (f + 1)..Len(files) :
                       files[g].kind = "sso" /\ (\A k \in 1..g : files[k].readable)
                           => UnitsFrom(files[g]) # {}

\* Zeta.java, which declares class Gamma, was visited before a qualifying
\* file, and the scan returned the one unit
C10_SkippedThenScanned ==
    /\ ScannedOk
    /\ Len(files) = 2
    /\ files[1].kind = "mismatch"
    /\ files[2].kind = "sso"
    /\ Len(matchingFiles) = 1
    /\ matchingFiles[1].FilePath = files[2].path

(***************************************************************************)
(* C11: removePrivateClasses terminates, shrinking the text with every     *)
(* iteration that stays in the loop, and returns the text unchanged from   *)
(* the iteration whose brace scan did not balance.                         *)
(***************************************************************************)
\* 1-based position of the first `private class ` of a text, 0 without one
FirstDeclaration(s) ==
    LET at == {i \in 1..(Len(s) - 3) :
                  SubSeq(s, i, i + 3) = <<"private", " ", "class", " ">>}
    IN  IF at = {} THEN 0 ELSE CHOOSE i \in at : \A k \in at : i <= k

\* 1-based position of the first opening brace at or after position a
FirstBraceFrom(s, a) ==
    LET at == {i \in a..Len(s) : s[i] = "{"}
    IN  IF at = {} THEN 0 ELSE CHOOSE i \in at : \A k \in at : i <= k

\* opening minus closing braces among positions b..e
Depth(s, b, e) ==
    Cardinality({k \in b..e : s[k] = "{"}) - Cardinality({k \in b..e : s[k] = "}"})

\* the first declaration of the text has an opening brace that never closes
Unbalanced(s) ==
    LET a == FirstDeclaration(s)
        b == IF a = 0 THEN 0 ELSE FirstBraceFrom(s, a)
    IN  /\ a # 0
        /\ b # 0
        /\ \A e \in b..Len(s) : Depth(s, b, e) # 0

\* text t is text s without a non-empty span that starts with
\* `private class ` and ends with the brace closing its first opening brace
RemovesDeclaration(s, t) ==
    \E a \in 1..Len(s) : \E e \in a..Len(s) :
        /\ SubSeq(s, a, Min({a + 3, Len(s)})) = <<"private", " ", "class", " ">>
        /\ FirstBraceFrom(s, a) \in a..e
        /\ Depth(s, FirstBraceFrom(s, a), e) = 0
        /\ s[e] = "}"
        /\ t = SubSeq(s, 1, a - 1) \o SubSeq(s, e + 1, Len(s))
        /\ Len(t) < Len(s)

\* an iteration either removes a declaration and stays in the loop with a
\* shorter text, or leaves the loop with the text as it is
ShrinksOrLeaves ==
    spc = "loop" =>
        \/ spc' = "loop" /\ RemovesDeclaration(stripInput, stripInput')
        \/ spc' = "returned" /\ stripInput' = stripInput

\* an iteration whose brace scan does not balance leaves the loop and the
\* text, declaration and all that follows it included, stays as it is
UnbalancedLeaves ==
    spc = "loop" /\ Unbalanced(stripInput) =>
        spc' = "returned" /\ stripInput' = stripInput

\* C11: removePrivateClasses terminates on every input: every iteration
\* removes a non-empty `private class ... {...}` span or leaves the loop, an
\* unbalanced brace scan returns the text as processed so far (the only way
\* the call ends is by returning a text), and the call does return, with
\* the text ScanForSSOs gets from it.
C11_StripTerminates ==
    /\ [][ShrinksOrLeaves]_vars
    /\ [][UnbalancedLeaves]_vars
    /\ [](spc \in {"call", "loop", "returned"})
    /\ [](spc = "returned" => stripInput = removePrivateClasses(stripOrig))
    /\ (spc = "loop" ~> spc = "returned")

\* a call that removed a declaration and then returned at an unbalanced one
C11_StoppedAtUnbalanced ==
    /\ spc = "returned"
    /\ Len(stripInput) < Len(stripOrig)
    /\ Unbalanced(stripInput)

====
